---- MODULE Spec2Model ----
(***************************************************************************)
(* HTMLTextPipe (src/src/rendering/text/html/HTMLTextPipe.ts): the render  *)
(* pipe that keeps one GPU text record per renderable uid, regenerates the *)
(* record's texture asynchronously when the view's key changes, and        *)
(* releases the record when the renderable is destroyed.                   *)
(*                                                                         *)
(* Every synchronous handler is one action.  The only suspension point is  *)
(* the await of getManagedTexture in _updateGpuText: the part before it    *)
(* belongs to add/update, the part after it is RequestComplete, and a      *)
(* rejection is RequestFail.                                               *)
(***************************************************************************)
EXTENDS Integers, Sequences, FiniteSets, TLC

\* uids of the renderables the host may hand to the pipe
Renderables == {1, 2}
\* values view._getKey() may take
Keys == {"k1", "k2"}
\* the keys the view of u takes in one run: the text of renderable 1 is
\* edited, renderable 2 keeps the text it was made with
KeysOf(u) == IF u = 1 THEN Keys ELSE {"k1"}
\* number of records _initGpuText allocates in one run
MaxRecs == 2
RecIds == 1..MaxRecs

\* currentKey of a fresh record
Sentinel == "--"
\* Texture.EMPTY
EMPTY == "EMPTY"
\* value of batchableSprite.bounds written by _initGpuText: [0, 1, 0, 0]
InitBounds == [tex |-> "literal", of |-> 0]
\* updateQuadBounds(bounds, view.anchor, texture, padding): the bounds are a
\* function of the texture and of the anchor and padding of the view of u
QuadBounds(u, tex) == [tex |-> tex, of |-> u]

VARIABLES
    viewKey,        \* viewKey[u]: renderable.view._getKey()
    didUpdate,      \* didUpdate[u]: renderable.view._didUpdate
    listeners,      \* listeners[u]: 'destroyed' listeners the pipe registered on u
    gpuText,        \* this._gpuText: uid -> absent | null | a record
    recs,           \* the reachable record objects, by identity
    nextRec,        \* the identity of the next record object
    entries,        \* the BatchableSprite objects ever allocated, by identity
    pool,           \* BigPool's free list of BatchableSprite
    requests,       \* getManagedTexture promises that are still pending
    pipeDestroyed,  \* destroy() ran to its end: _gpuText and _renderer are null
    refCount,       \* the texture provider's count per key: getManagedTexture
                    \* promises resolved so far minus decreaseReferenceCount
                    \* calls made so far
    failed,         \* records whose latest request was rejected
    lastOp          \* of the handler that ran last: the renderable it ran
                    \* for, what it returned, whether it threw, and its calls
                    \* to the provider and the pool

vars == <<viewKey, didUpdate, listeners, gpuText, recs, nextRec, entries, pool, requests,
          pipeDestroyed, refCount, failed, lastOp>>

Absent == [tag |-> "absent", id |-> 0]
Null == [tag |-> "null", id |-> 0]
RecRef(id) == [tag |-> "rec", id |-> id]

Op(u, ret, fault, calls) ==
    [uid |-> u, ret |-> ret, fault |-> fault, calls |-> calls]

\* entries of lastOp.calls
DecCall(k) == [fn |-> "decreaseReferenceCount", arg |-> k]
GetCall(k) == [fn |-> "getManagedTexture", arg |-> k]
ReturnCall(e) == [fn |-> "BigPool.return", arg |-> e]

----------------------------------------------------------------------------
(* _getGpuText / _initGpuText                                              *)

\* this._gpuText[renderable.uid] is truthy
HasRec(u) == gpuText[u].tag = "rec"

\* BigPool.get(BatchableSprite): a pooled instance if there is one, else a new one
PoolGet == IF Len(pool) > 0 THEN pool[Len(pool)] ELSE Len(entries) + 1
PoolAfterGet == IF Len(pool) > 0 THEN SubSeq(pool, 1, Len(pool) - 1) ELSE pool

\* no object has this identity
NoRec ==
    [texture |-> EMPTY,
     currentKey |-> Sentinel,
     batchableSprite |-> 0,
     textureNeedsUploading |-> FALSE,
     generatingTexture |-> FALSE]

\* the identity of the next record object
NewId == nextRec

\* a record object is dropped once neither _gpuText nor a pending
\* continuation refers to it
Collect(rs, gt, rq) ==
    [id \in RecIds |->
        IF (\E u \in Renderables : gt[u] = RecRef(id)) \/ (\E q \in rq : q.rec = id)
        THEN rs[id] ELSE NoRec]

\* a record that is born generating
InitRecGenerating ==
    [texture |-> EMPTY,
     currentKey |-> Sentinel,
     batchableSprite |-> PoolGet,
     textureNeedsUploading |-> FALSE,
     generatingTexture |-> TRUE]

InitRec ==
    [texture |-> EMPTY,
     currentKey |-> Sentinel,
     batchableSprite |-> PoolGet,
     textureNeedsUploading |-> FALSE,
     generatingTexture |-> FALSE]

InitEntry(u) == [sprite |-> u, texture |-> EMPTY, bounds |-> InitBounds]

\* the state after _getGpuText(u) returned
RecsG(u) == IF HasRec(u) THEN recs ELSE [recs EXCEPT ![NewId] = InitRec]
EntriesG(u) ==
    IF HasRec(u) THEN entries
    ELSE IF Len(pool) > 0 THEN [entries EXCEPT ![PoolGet] = InitEntry(u)]
    ELSE Append(entries, InitEntry(u))
PoolG(u) == IF HasRec(u) THEN pool ELSE PoolAfterGet
GpuTextG(u) ==
    IF HasRec(u) THEN gpuText ELSE [gpuText EXCEPT ![u] = RecRef(NewId)]
NextRecG(u) == IF HasRec(u) THEN nextRec ELSE nextRec + 1
\* a listener registered only with the first record of a renderable
ListenersGOnce(u) ==
    IF HasRec(u) \/ listeners[u] > 0 THEN listeners ELSE [listeners EXCEPT ![u] = @ + 1]

ListenersG(u) ==
    IF HasRec(u) THEN listeners ELSE [listeners EXCEPT ![u] = @ + 1]
\* the record _getGpuText(u) returns
IdG(u) == GpuTextG(u)[u].id

\* the host calls validate/add/update on a pipe it has not torn down
CanTouch(u) ==
    /\ ~pipeDestroyed
    /\ HasRec(u) \/ nextRec <= MaxRecs

----------------------------------------------------------------------------
(* the texture provider's reference count                                  *)

\* decreaseReferenceCount(k); the sentinel key names no texture, releasing
\* it changes no count
RefCountAfterDec(rc, k) == IF k \in Keys THEN [rc EXCEPT ![k] = @ - 1] ELSE rc

\* a getManagedTexture call for k that succeeds counts once
RefCountAfterResolve(rc, k) == [rc EXCEPT ![k] = @ + 1]

----------------------------------------------------------------------------
(* validateRenderable                                                      *)

\* the result without the textureNeedsUploading branch
ValidateResultKeyOnly(rec, newKey) == rec.currentKey # newKey

ValidateResult(rec, newKey) ==
    IF rec.textureNeedsUploading THEN TRUE
    ELSE IF rec.currentKey # newKey THEN TRUE
    ELSE FALSE

\* a validate that resets both flags of the record
ValidateRecsBothFlags(rs, id) ==
    IF rs[id].textureNeedsUploading
    THEN [rs EXCEPT ![id].textureNeedsUploading = FALSE,
                    ![id].generatingTexture = FALSE]
    ELSE rs

ValidateRecs(rs, id) ==
    IF rs[id].textureNeedsUploading
    THEN [rs EXCEPT ![id].textureNeedsUploading = FALSE]
    ELSE rs

ValidateRenderable(u) ==
    /\ CanTouch(u)
    /\ recs' = ValidateRecs(RecsG(u), IdG(u))
    /\ entries' = EntriesG(u)
    /\ pool' = PoolG(u)
    /\ gpuText' = GpuTextG(u)
    /\ listeners' = ListenersG(u)
    /\ nextRec' = NextRecG(u)
    /\ lastOp' = Op(u, ValidateResult(RecsG(u)[IdG(u)], viewKey[u]),
                    FALSE, <<>>)
    /\ UNCHANGED <<viewKey, didUpdate, requests, pipeDestroyed, refCount, failed>>

----------------------------------------------------------------------------
(* addRenderable / updateRenderable / _updateText / _updateGpuText         *)

\* _updateText: gpuText.currentKey !== newKey
KeyChanged(rec, newKey) == rec.currentKey # newKey

\* the gate left out
GateNeverClosed(rec) == FALSE

\* _updateGpuText: if (gpuText.generatingTexture) return
GateClosed(rec) == rec.generatingTexture

\* _updateGpuText gets past the gate and calls getManagedTexture
Starts(u) ==
    /\ didUpdate[u]
    /\ KeyChanged(RecsG(u)[IdG(u)], viewKey[u])
    /\ ~GateClosed(RecsG(u)[IdG(u)])

\* the synchronous part without the currentKey write
StartedRecsKeepKey(rs, id, newKey) ==
    [rs EXCEPT ![id].generatingTexture = TRUE]

\* the record after the synchronous part of _updateGpuText
StartedRecs(rs, id, newKey) ==
    [rs EXCEPT ![id].generatingTexture = TRUE, ![id].currentKey = newKey]

\* a release that names no texture
ReleasedKeyNone(rec) == Sentinel

\* the key _updateGpuText hands to decreaseReferenceCount
ReleasedKey(rec) == rec.currentKey

\* a name for the new pending promise: the least one no pending promise has
FreshRequest ==
    CHOOSE i \in 1..(Cardinality(requests) + 1) :
        /\ \A q \in requests : q.n # i
        /\ \A j \in 1..(i - 1) : \E q \in requests : q.n = j

\* the pending getManagedTexture call and what its continuation captured:
\* the record object, the renderable, and the key the texture is made for
NewRequest(u) == [n |-> FreshRequest, rec |-> IdG(u), uid |-> u, key |-> viewKey[u]]

\* _updateText's trailing updateQuadBounds on the batch entry
RefreshedEntries(es, u, bs) ==
    [es EXCEPT ![bs].bounds = QuadBounds(u, es[bs].texture)]

\* addRenderable and updateRenderable differ in the batcher call that ends
\* them (addToBatch, updateElement), which changes nothing of the pipe
UpdateStep(u) ==
    /\ CanTouch(u)
    /\ pool' = PoolG(u)
    /\ gpuText' = GpuTextG(u)
    /\ listeners' = ListenersG(u)
    /\ nextRec' = NextRecG(u)
    /\ LET id == IdG(u)
           rec == RecsG(u)[id]
       IN  IF didUpdate[u]
           THEN /\ IF Starts(u)
                   THEN /\ recs' = StartedRecs(RecsG(u), id, viewKey[u])
                        /\ refCount' = RefCountAfterDec(refCount, ReleasedKey(rec))
                        /\ requests' = requests \cup {NewRequest(u)}
                        /\ failed' = failed \ {id}
                        /\ lastOp' = Op(u, FALSE, FALSE,
                                        <<DecCall(ReleasedKey(rec)), GetCall(viewKey[u])>>)
                   ELSE /\ recs' = RecsG(u)
                        /\ lastOp' = Op(u, FALSE, FALSE, <<>>)
                        /\ UNCHANGED <<refCount, requests, failed>>
                /\ didUpdate' = [didUpdate EXCEPT ![u] = FALSE]
                /\ entries' = RefreshedEntries(EntriesG(u), u, rec.batchableSprite)
           ELSE /\ recs' = RecsG(u)
                /\ entries' = EntriesG(u)
                /\ lastOp' = Op(u, FALSE, FALSE, <<>>)
                /\ UNCHANGED <<refCount, requests, failed, didUpdate>>
    /\ UNCHANGED <<viewKey, pipeDestroyed>>

AddRenderable(u) == UpdateStep(u)

UpdateRenderable(u) == UpdateStep(u)

----------------------------------------------------------------------------
(* the continuation of _updateGpuText after the await                      *)

CompletedRecs(rs, q) ==
    [rs EXCEPT ![q.rec].texture = q.key,
               ![q.rec].generatingTexture = FALSE,
               ![q.rec].textureNeedsUploading = TRUE]

CompletedEntries(es, rs, q) ==
    [es EXCEPT ![rs[q.rec].batchableSprite].texture = q.key,
               ![rs[q.rec].batchableSprite].bounds = QuadBounds(q.uid, q.key)]

\* the continuation without its onUpdate call
NotifiedViewSilent(du, q) == du

\* renderable.view.onUpdate()
NotifiedView(du, q) == [du EXCEPT ![q.uid] = TRUE]

RequestComplete(q) ==
    /\ q \in requests
    /\ requests' = requests \ {q}
    /\ recs' = Collect(CompletedRecs(recs, q), gpuText, requests')
    /\ entries' = CompletedEntries(entries, recs, q)
    /\ didUpdate' = NotifiedView(didUpdate, q)
    /\ refCount' = RefCountAfterResolve(refCount, q.key)
    /\ lastOp' = Op(q.uid, FALSE, FALSE, <<>>)
    /\ failed' = failed \ {id \in RecIds : recs'[id] = NoRec}
    /\ UNCHANGED <<viewKey, listeners, gpuText, nextRec, pool, pipeDestroyed>>

\* a rejection handled like a resolution that brought no texture
FailedRecsFlagged(rs, q) ==
    [rs EXCEPT ![q.rec].generatingTexture = FALSE,
               ![q.rec].textureNeedsUploading = TRUE]

\* the promise rejects: the async function ends at the await, .catch logs
FailedRecs(rs, q) == rs

RequestFail(q) ==
    /\ q \in requests
    /\ requests' = requests \ {q}
    /\ recs' = Collect(FailedRecs(recs, q), gpuText, requests')
    /\ failed' = (failed \cup {q.rec}) \ {id \in RecIds : recs'[id] = NoRec}
    /\ lastOp' = Op(q.uid, FALSE, FALSE, <<>>)
    /\ UNCHANGED <<viewKey, didUpdate, listeners, gpuText, nextRec, entries, pool,
                   pipeDestroyed, refCount>>

----------------------------------------------------------------------------
(* destroyRenderable / _destroyRenderableById / destroy                    *)

PipeState == [gpuText |-> gpuText, pool |-> pool, refCount |-> refCount,
              fault |-> FALSE, calls |-> <<>>]

\* one call of _destroyRenderableById(u); reading a field of null or of
\* undefined throws before anything is changed
DestroyById(st, u) ==
    IF st.fault THEN st
    ELSE IF pipeDestroyed \/ st.gpuText[u].tag # "rec" THEN [st EXCEPT !.fault = TRUE]
    ELSE LET rec == recs[st.gpuText[u].id]
         IN  [st EXCEPT !.refCount = RefCountAfterDec(@, rec.currentKey),
                        !.pool = Append(@, rec.batchableSprite),
                        !.gpuText = [@ EXCEPT ![u] = Null],
                        !.calls = @ \o <<DecCall(rec.currentKey),
                                         ReturnCall(rec.batchableSprite)>>]

RECURSIVE DestroyEach(_, _)
DestroyEach(st, us) ==
    IF us = <<>> THEN st ELSE DestroyEach(DestroyById(st, Head(us)), Tail(us))

RECURSIVE Ascending(_)
Ascending(S) ==
    IF S = {} THEN <<>>
    ELSE LET m == CHOOSE x \in S : \A y \in S : x <= y
         IN  <<m>> \o Ascending(S \ {m})

\* for (const i in this._gpuText): the own keys, in ascending order
OwnKeys == Ascending({u \in Renderables : gpuText[u].tag # "absent"})

\* the calls of the listeners registered on u, one after the other
ListenerCalls(u) == [i \in 1..listeners[u] |-> u]

Apply(st) ==
    /\ gpuText' = st.gpuText
    /\ recs' = Collect(recs, st.gpuText, requests)
    /\ failed' = failed \ {id \in RecIds : recs'[id] = NoRec}
    /\ pool' = st.pool
    /\ refCount' = st.refCount

\* the host calls destroyRenderable(renderable)
DestroyRenderable(u) ==
    /\ ~pipeDestroyed
    /\ LET st == DestroyById(PipeState, u)
       IN  /\ Apply(st)
           /\ lastOp' = Op(u, FALSE, st.fault, st.calls)
    /\ UNCHANGED <<viewKey, didUpdate, listeners, nextRec, entries, requests,
                   pipeDestroyed>>

\* the renderable emits 'destroyed': every listener the pipe registered with
\* renderable.on runs destroyRenderable, until one of them throws
DestroyedSignal(u) ==
    /\ listeners[u] > 0
    /\ LET st == DestroyEach(PipeState, ListenerCalls(u))
       IN  /\ Apply(st)
           /\ lastOp' = Op(u, FALSE, st.fault, st.calls)
    /\ UNCHANGED <<viewKey, didUpdate, listeners, nextRec, entries, requests,
                   pipeDestroyed>>

\* destroy(): the loop, then _gpuText = null and _renderer = null
Destroy ==
    /\ ~pipeDestroyed
    /\ LET st == DestroyEach(PipeState, OwnKeys)
       IN  /\ Apply(st)
           /\ pipeDestroyed' = ~st.fault
           /\ lastOp' = Op(0, FALSE, st.fault, st.calls)
    /\ UNCHANGED <<viewKey, didUpdate, listeners, nextRec, entries, requests>>

----------------------------------------------------------------------------
(* the view                                                                *)

\* text or style is set: the key changes and onUpdate raises _didUpdate
KeyChange(u, k) ==
    /\ k \in KeysOf(u)
    /\ k # viewKey[u]
    /\ viewKey' = [viewKey EXCEPT ![u] = k]
    /\ didUpdate' = [didUpdate EXCEPT ![u] = TRUE]
    /\ lastOp' = Op(u, FALSE, FALSE, <<>>)
    /\ UNCHANGED <<listeners, gpuText, recs, nextRec, entries, pool, requests,
                   pipeDestroyed, refCount, failed>>

----------------------------------------------------------------------------

Init ==
    /\ viewKey \in {f \in [Renderables -> Keys] : \A u \in Renderables : f[u] \in KeysOf(u)}
    /\ didUpdate = [u \in Renderables |-> TRUE]
    /\ listeners = [u \in Renderables |-> 0]
    /\ gpuText = [u \in Renderables |-> Absent]
    /\ recs = [id \in RecIds |-> NoRec]
    /\ nextRec = 1
    /\ entries = <<>>
    /\ pool = <<>>
    /\ requests = {}
    /\ pipeDestroyed = FALSE
    /\ refCount = [k \in Keys |-> 0]
    /\ failed = {}
    /\ lastOp = Op(0, FALSE, FALSE, <<>>)

Next ==
    \/ \E u \in Renderables : ValidateRenderable(u)
    \/ \E u \in Renderables : AddRenderable(u)
    \/ \E u \in Renderables : UpdateRenderable(u)
    \/ \E u \in Renderables : DestroyRenderable(u)
    \/ \E u \in Renderables : DestroyedSignal(u)
    \/ Destroy
    \/ \E q \in requests : RequestComplete(q)
    \/ \E q \in requests : RequestFail(q)
    \/ \E u \in Renderables, k \in Keys : KeyChange(u, k)

Spec == Init /\ [][Next]_vars

----------------------------------------------------------------------------
(* the render loop while nothing is destroyed and every request succeeds  *)

\* the frame of u goes on after validateRenderable(u) returned true: the
\* instruction set is rebuilt or updated, which calls add/update for u
FrameUpdate(u) ==
    /\ lastOp.uid = u
    /\ lastOp.ret
    /\ AddRenderable(u) \/ UpdateRenderable(u)

\* the pending request made for u resolves
Resolve(u) == \E q \in requests : q.uid = u /\ RequestComplete(q)

LiveNext ==
    \/ \E u \in Renderables : ValidateRenderable(u)
    \/ \E u \in Renderables : FrameUpdate(u)
    \/ \E u \in Renderables : Resolve(u)
    \/ \E u \in Renderables, k \in Keys : KeyChange(u, k)

\* every frame validates every renderable; add/update follows a validate
\* that returned true in the same synchronous task, so it is taken whenever
\* it is enabled often enough; every request resolves.  The view may change
\* its key forever or stop.
LiveSpec ==
    /\ Init
    /\ [][LiveNext]_vars
    /\ \A u \in Renderables : WF_vars(ValidateRenderable(u))
    /\ \A u \in Renderables : SF_vars(FrameUpdate(u))
    /\ \A u \in Renderables : WF_vars(Resolve(u))

----------------------------------------------------------------------------
(* Properties                                                              *)

\* the record _gpuText holds for u
RecOf(u) == recs[gpuText[u].id]
\* the batch entry of the record of u
EntryOf(u) == entries[RecOf(u).batchableSprite]
\* the pending requests whose continuation holds record id
PendingOf(id) == {q \in requests : q.rec = id}

\* C1: a record never has two pending getManagedTexture requests, and an
\* add/update that finds the key changed while generatingTexture is set
\* issues no request, calls decreaseReferenceCount not at all and leaves
\* currentKey as it is.
C1_SingleFlight ==
    [][/\ \A id \in RecIds : Cardinality({q \in requests' : q.rec = id}) <= 1
       /\ \A u \in Renderables :
            (/\ AddRenderable(u) \/ UpdateRenderable(u)
             /\ HasRec(u)
             /\ didUpdate[u]
             /\ RecOf(u).generatingTexture
             /\ RecOf(u).currentKey # viewKey[u])
            => /\ requests' = requests
               /\ refCount' = refCount
               /\ lastOp'.calls = <<>>
               /\ recs'[gpuText[u].id].currentKey = RecOf(u).currentKey]_vars

\* C1 witness: add/update has consumed a key change of u (the mutation flag
\* is down, the keys still differ) while the one request of its record pends
C1_Witness ==
    \E u \in Renderables :
        /\ HasRec(u)
        /\ lastOp.uid = u
        /\ lastOp.calls = <<>>
        /\ ~didUpdate[u]
        /\ RecOf(u).generatingTexture
        /\ RecOf(u).currentKey # viewKey[u]
        /\ Cardinality(PendingOf(gpuText[u].id)) = 1

\* every real key is in balance: decreaseReferenceCount was called for it no
\* more often than getManagedTexture resolved for it
NoOverRelease == \A k \in Keys : refCount[k] >= 0
\* every renderable is destroyed and no request pends
Quiescent == requests = {} /\ \A u \in Renderables : ~HasRec(u)

\* C2: for every real key the decreaseReferenceCount calls never outnumber
\* the resolved getManagedTexture requests, and the two numbers are equal
\* once every renderable is destroyed and no request pends.
C2_RefCountBalance ==
    /\ NoOverRelease
    /\ Quiescent => \A k \in Keys : refCount[k] = 0

\* the live records that display the texture fetched for their currentKey k
Displaying(k) ==
    {u \in Renderables :
        /\ HasRec(u)
        /\ RecOf(u).currentKey = k
        /\ RecOf(u).texture = k
        /\ ~RecOf(u).generatingTexture}

\* C3: the provider's count for a key is at least the number of live
\* records that display the texture fetched for that key.
C3_SharedTextureAlive ==
    \A k \in Keys :
        Displaying(k) # {} => refCount[k] >= Cardinality(Displaying(k))

\* C4: validate returns true exactly if textureNeedsUploading is set or the
\* record's key differs from the view's key; with the keys equal, a validate
\* that finds the flag set returns true and clears it, and a validate that
\* finds it clear returns false.
C4_ValidateResult ==
    [][\A u \in Renderables :
          ValidateRenderable(u) =>
              LET before == RecsG(u)[IdG(u)]
                  after == recs'[IdG(u)]
              IN  /\ lastOp'.ret =
                        (before.textureNeedsUploading \/ before.currentKey # viewKey[u])
                  /\ before.currentKey = viewKey[u] /\ before.textureNeedsUploading
                        => lastOp'.ret /\ ~after.textureNeedsUploading
                  /\ before.currentKey = viewKey[u] /\ ~before.textureNeedsUploading
                        => ~lastOp'.ret /\ ~after.textureNeedsUploading]_vars

\* C4 witness: validate of u has just returned true by consuming the flag of
\* a completed regeneration, the keys being equal
C4_Witness ==
    \E u \in Renderables :
        /\ HasRec(u)
        /\ lastOp.uid = u
        /\ lastOp.ret
        /\ RecOf(u).currentKey = viewKey[u]
        /\ RecOf(u).texture = viewKey[u]
        /\ ~RecOf(u).textureNeedsUploading
        /\ ~RecOf(u).generatingTexture

\* C5: a destroy of a renderable whose record was destroyed before does not
\* throw, and a destroy that releases a record calls decreaseReferenceCount
\* once and returns the batch entry once.
C5_DoubleDestroyHarmless ==
    \A u \in Renderables :
        (lastOp.uid = u /\ ~pipeDestroyed /\ gpuText[u].tag = "null")
        => /\ ~lastOp.fault
           /\ Len(lastOp.calls) \in {0, 2}

\* C6: destroy() does not throw, whatever state it is called in, and
\* releases each live record once: one decreaseReferenceCount of its key
\* and one return of its batch entry.
C6_PipeDestroyCompletes ==
    [][Destroy =>
          /\ ~lastOp'.fault
          /\ Len(lastOp'.calls) = 2 * Cardinality({u \in Renderables : HasRec(u)})
          /\ \A u \in Renderables :
                HasRec(u) =>
                    \E i \in 1..Len(lastOp'.calls) :
                        /\ i < Len(lastOp'.calls)
                        /\ lastOp'.calls[i] = DecCall(RecOf(u).currentKey)
                        /\ lastOp'.calls[i + 1] = ReturnCall(RecOf(u).batchableSprite)]_vars

\* C7: a rejected request throws nothing, leaves the texture of every live
\* record and of its batch entry as they were and sets no
\* textureNeedsUploading; validate, add and update of a renderable whose
\* request was rejected do not throw.
C7_FailureAbsorbed ==
    [][/\ \A q \in requests :
            RequestFail(q) =>
                /\ ~lastOp'.fault
                /\ entries' = entries
                /\ \A u \in Renderables :
                      HasRec(u) =>
                          /\ recs'[gpuText[u].id].texture = RecOf(u).texture
                          /\ recs'[gpuText[u].id].textureNeedsUploading
                                = RecOf(u).textureNeedsUploading
       /\ \A u \in Renderables :
            (/\ HasRec(u)
             /\ gpuText[u].id \in failed
             /\ ValidateRenderable(u) \/ AddRenderable(u) \/ UpdateRenderable(u))
            => ~lastOp'.fault]_vars

\* C7 witness: the request of the record of u was rejected, and a later
\* validate of u has returned (true, the keys differing)
C7_Witness ==
    \E u \in Renderables :
        /\ HasRec(u)
        /\ gpuText[u].id \in failed
        /\ lastOp.uid = u
        /\ lastOp.ret
        /\ ~lastOp.fault
        /\ ~RecOf(u).textureNeedsUploading

\* C8: after the request of a record was rejected, an add/update that finds
\* the mutation flag set and the view's key changed issues a request for the
\* new key.
C8_RetryAfterFailure ==
    [][\A u \in Renderables :
          (/\ AddRenderable(u) \/ UpdateRenderable(u)
           /\ HasRec(u)
           /\ gpuText[u].id \in failed
           /\ didUpdate[u]
           /\ RecOf(u).currentKey # viewKey[u])
          => \E q \in requests' \ requests :
                q.rec = gpuText[u].id /\ q.key = viewKey[u]]_vars

\* C9: the completion of a request whose record is no longer the record of
\* its renderable throws nothing, writes no batch entry and does not notify
\* the view.
C9_LateCompletionNoOp ==
    [][\A q \in requests :
          (RequestComplete(q) /\ gpuText[q.uid] # RecRef(q.rec))
          => /\ ~lastOp'.fault
             /\ entries' = entries
             /\ didUpdate' = didUpdate]_vars

\* C10: the texture of a live record is the texture of its batch entry, and
\* the bounds of the batch entry were computed from that texture (or are
\* still the ones the entry got, with the empty texture, at first touch).
C10_TextureBoundsConsistent ==
    \A u \in Renderables :
        HasRec(u) =>
            /\ RecOf(u).texture = EntryOf(u).texture
            /\ \/ EntryOf(u).bounds = InitBounds /\ EntryOf(u).texture = EMPTY
               \/ EntryOf(u).bounds.tex = EntryOf(u).texture

\* the view of u has key k while the request of its record is for another key
StaleRequest(u, k) ==
    /\ HasRec(u)
    /\ viewKey[u] = k
    /\ RecOf(u).generatingTexture
    /\ \E q \in PendingOf(gpuText[u].id) : q.key # k

\* a request for k pends for the record of u
Requested(u, k) ==
    HasRec(u) /\ \E q \in PendingOf(gpuText[u].id) : q.key = k

\* the record of u is not generating and displays the texture fetched for k
Settled(u, k) ==
    /\ HasRec(u)
    /\ ~RecOf(u).generatingTexture
    /\ RecOf(u).currentKey = k
    /\ RecOf(u).texture = k
    /\ EntryOf(u).texture = k

\* C11: when the view's key has become k while a request for another key
\* pends, then, unless the key changes again, a request for k is issued
\* later and later still the record is not generating and displays the
\* texture fetched for k (frames keep running, every request resolves).
C11_EventualConsistency ==
    \A u \in Renderables : \A k \in Keys :
        /\ StaleRequest(u, k) ~> (viewKey[u] # k \/ Requested(u, k))
        /\ StaleRequest(u, k) ~> (viewKey[u] # k \/ Settled(u, k))

\* C11 witness: add/update of u met the closed gate (the mutation flag is
\* consumed, currentKey is still the key of the pending request) after the
\* view's key had moved on
C11_Witness ==
    \E u \in Renderables : \E k \in Keys :
        /\ StaleRequest(u, k)
        /\ ~didUpdate[u]
        /\ RecOf(u).currentKey # k
        /\ lastOp = Op(u, FALSE, FALSE, <<>>)

\* add/update of u runs with the mutation flag set, so every key change made
\* so far is processed by it, and no regeneration of the record of u has
\* completed or failed yet
ProcessesChanges(u) ==
    /\ AddRenderable(u) \/ UpdateRenderable(u)
    /\ didUpdate[u]
    /\ RecsG(u)[IdG(u)].texture = EMPTY
    /\ ~RecsG(u)[IdG(u)].textureNeedsUploading
    /\ IdG(u) \notin failed

\* after the step one request pends for the record of u, and it and the
\* record's currentKey are for the view's key, the key of the last change
TargetsLastKey(u) ==
    /\ Cardinality({q \in requests' : q.rec = IdG(u)}) = 1
    /\ \A q \in requests' : q.rec = IdG(u) => q.key = viewKey[u]
    /\ recs'[IdG(u)].currentKey = viewKey[u]

\* C12 as stated: however the key changes interleave with add/update, once
\* add/update has processed the changes and no regeneration has completed,
\* one request pends for the record and it and currentKey are for the key
\* of the last change.
C12_LastWriterWins ==
    [][\A u \in Renderables : ProcessesChanges(u) => TargetsLastKey(u)]_vars

\* C12 amended: when no request pends at the add/update that processes the
\* changes (no add/update ran between them), one request pends afterwards
\* and it and currentKey are for the key of the last change; when a request
\* pends already (an add/update ran between the changes), it stays the only
\* one and currentKey stays its key.
C12_LastWriterWinsUngated ==
    [][\A u \in Renderables :
          ProcessesChanges(u) =>
              LET id == IdG(u)
                  before == RecsG(u)[id]
              IN  /\ ~before.generatingTexture => TargetsLastKey(u)
                  /\ before.generatingTexture =>
                        /\ {q \in requests' : q.rec = id} = PendingOf(id)
                        /\ Cardinality(PendingOf(id)) = 1
                        /\ recs'[id].currentKey = before.currentKey
                        /\ \A q \in PendingOf(id) : q.key = before.currentKey]_vars

\* C12 witness: the key of u changed after add/update had issued the first
\* request of its record, a second add/update has processed the change, and
\* the request and currentKey are still for the earlier key
C12_Witness ==
    \E u \in Renderables :
        /\ HasRec(u)
        /\ lastOp = Op(u, FALSE, FALSE, <<>>)
        /\ ~didUpdate[u]
        /\ RecOf(u).texture = EMPTY
        /\ RecOf(u).currentKey \in Keys \ {viewKey[u]}
        /\ gpuText[u].id \notin failed
        /\ Cardinality(PendingOf(gpuText[u].id)) = 1
        /\ \A q \in PendingOf(gpuText[u].id) : q.key = RecOf(u).currentKey

\* C13: validate of a renderable that has a record changes nothing but
\* textureNeedsUploading of that record, which is clear afterwards: texture,
\* currentKey and generatingTexture of every record, the batch entries, the
\* mutation flags, the counts, the pending requests, the pool and _gpuText
\* stay as they are, and validate calls neither the provider nor the pool.
C13_ValidateFrame ==
    [][\A u \in Renderables :
          (ValidateRenderable(u) /\ HasRec(u)) =>
              /\ recs' = [recs EXCEPT ![gpuText[u].id].textureNeedsUploading = FALSE]
              /\ ~RecOf(u).textureNeedsUploading => recs' = recs
              /\ entries' = entries
              /\ didUpdate' = didUpdate
              /\ refCount' = refCount
              /\ requests' = requests
              /\ gpuText' = gpuText
              /\ pool' = pool
              /\ lastOp'.calls = <<>>]_vars

\* C13 witness: validate of u has consumed textureNeedsUploading and left
\* the displayed texture, the bounds and the mutation flag in place, while
\* the request of another renderable's record pends
C13_Witness ==
    \E u \in Renderables :
        /\ HasRec(u)
        /\ lastOp = Op(u, TRUE, FALSE, <<>>)
        /\ ~RecOf(u).textureNeedsUploading
        /\ ~RecOf(u).generatingTexture
        /\ RecOf(u).texture = RecOf(u).currentKey
        /\ EntryOf(u).texture = RecOf(u).texture
        /\ EntryOf(u).bounds = QuadBounds(u, RecOf(u).texture)
        /\ didUpdate[u]
        /\ \E v \in Renderables \ {u} :
              HasRec(v) /\ RecOf(v).generatingTexture /\ PendingOf(gpuText[v].id) # {}

\* C14: a live record for which no request pends either has the sentinel
\* key and displays the empty texture, or its batch entry displays the
\* texture fetched for its currentKey.
C14_KeyTextureAgreement ==
    \A u \in Renderables :
        (HasRec(u) /\ PendingOf(gpuText[u].id) = {}) =>
            \/ RecOf(u).currentKey = Sentinel /\ EntryOf(u).texture = EMPTY
            \/ EntryOf(u).texture = RecOf(u).currentKey

\* C15: generatingTexture of a live record is set exactly while a request
\* issued for the record pends (has neither resolved nor been rejected).
C15_FlagMatchesRequest ==
    \A u \in Renderables :
        HasRec(u) =>
            (RecOf(u).generatingTexture <=> PendingOf(gpuText[u].id) # {})

\* the step has made a record for u: it has the empty texture, the sentinel
\* key and both flags clear, its batch entry shows the empty texture, and
\* neither getManagedTexture nor decreaseReferenceCount was called
CreatedOnly(u) ==
    /\ gpuText'[u] = RecRef(NewId)
    /\ recs'[NewId].texture = EMPTY
    /\ recs'[NewId].currentKey = Sentinel
    /\ ~recs'[NewId].textureNeedsUploading
    /\ ~recs'[NewId].generatingTexture
    /\ entries'[recs'[NewId].batchableSprite].texture = EMPTY
    /\ requests' = requests
    /\ refCount' = refCount
    /\ lastOp'.calls = <<>>

\* C16: a step that creates the record of u without updating its text
\* (validate, or add/update with the mutation flag down) leaves it with the
\* empty texture, the sentinel key and both flags clear, and calls the
\* provider not at all; an add/update of u that runs with the mutation flag
\* set on a record that has the sentinel key issues one request, for the
\* view's key, makes that key the record's currentKey, and releases no real
\* key.
C16_FirstTouch ==
    [][\A u \in Renderables :
          /\ (ValidateRenderable(u) /\ ~HasRec(u)) => CreatedOnly(u)
          /\ (/\ AddRenderable(u) \/ UpdateRenderable(u)
              /\ ~HasRec(u)
              /\ ~didUpdate[u]) => CreatedOnly(u)
          /\ (/\ AddRenderable(u) \/ UpdateRenderable(u)
              /\ didUpdate[u]
              /\ RecsG(u)[IdG(u)].currentKey = Sentinel)
             => /\ requests \subseteq requests'
                /\ Cardinality(requests' \ requests) = 1
                /\ \A q \in requests' \ requests :
                      q.rec = IdG(u) /\ q.uid = u /\ q.key = viewKey[u]
                /\ {q \in requests' : q.rec = IdG(u)} = requests' \ requests
                /\ recs'[IdG(u)].currentKey = viewKey[u]
                /\ recs'[IdG(u)].generatingTexture
                /\ recs'[IdG(u)].texture = EMPTY
                /\ refCount' = refCount
                /\ lastOp'.calls = <<DecCall(Sentinel), GetCall(viewKey[u])>>]_vars

\* C16 witness: the first add/update of u has just issued the one request
\* of its fresh record, for the view's key, and the record and its batch
\* entry still show the empty texture
C16_Witness ==
    \E u \in Renderables :
        /\ HasRec(u)
        /\ listeners[u] = 1
        /\ lastOp = Op(u, FALSE, FALSE, <<DecCall(Sentinel), GetCall(viewKey[u])>>)
        /\ RecOf(u).currentKey = viewKey[u]
        /\ RecOf(u).texture = EMPTY
        /\ EntryOf(u).texture = EMPTY
        /\ RecOf(u).generatingTexture
        /\ ~didUpdate[u]
        /\ Cardinality(PendingOf(gpuText[u].id)) = 1

\* C17: an add/update that issues a request has, before the request and in
\* the same step, called decreaseReferenceCount once, with the key the
\* record had until then, so the count of that key drops before the new
\* texture arrives; an add/update that issues none calls nothing; the
\* completion of a request calls no decreaseReferenceCount and lowers no
\* count.
C17_OldKeyReleasedFirst ==
    [][/\ \A u \in Renderables :
            (AddRenderable(u) \/ UpdateRenderable(u)) =>
                LET old == RecsG(u)[IdG(u)].currentKey
                IN  IF requests' # requests
                    THEN /\ old # viewKey[u]
                         /\ lastOp'.calls = <<DecCall(old), GetCall(viewKey[u])>>
                         /\ old \in Keys =>
                               refCount' = [refCount EXCEPT ![old] = @ - 1]
                         /\ old \notin Keys => refCount' = refCount
                         /\ recs'[IdG(u)].texture = RecsG(u)[IdG(u)].texture
                    ELSE /\ lastOp'.calls = <<>>
                         /\ refCount' = refCount
       /\ \A q \in requests :
            RequestComplete(q) =>
                /\ lastOp'.calls = <<>>
                /\ \A k \in Keys : refCount'[k] >= refCount[k]]_vars

\* C17 witness: add/update of u has just released the key whose texture the
\* record still displays and requested the texture of the view's new key
C17_Witness ==
    \E u \in Renderables : \E old \in Keys :
        /\ HasRec(u)
        /\ old # viewKey[u]
        /\ lastOp = Op(u, FALSE, FALSE, <<DecCall(old), GetCall(viewKey[u])>>)
        /\ RecOf(u).texture = old
        /\ EntryOf(u).texture = old
        /\ RecOf(u).currentKey = viewKey[u]
        /\ RecOf(u).generatingTexture
        /\ refCount[old] = 0
        /\ \E q \in PendingOf(gpuText[u].id) : q.key = viewKey[u]

\* the step is an operation on renderable a, or the end of a request that
\* was made for a
ActsFor(a) ==
    \/ ValidateRenderable(a)
    \/ AddRenderable(a)
    \/ UpdateRenderable(a)
    \/ DestroyRenderable(a)
    \/ DestroyedSignal(a)
    \/ \E q \in requests : q.uid = a /\ (RequestComplete(q) \/ RequestFail(q))

\* C18: no two live records have the same batch entry, and a step made for
\* renderable a (an operation on a, or the completion of a request made for
\* a, also after a was destroyed) leaves the record and the batch entry of
\* every other renderable as they were.
C18_RecordExclusivity ==
    [][/\ \A a, b \in Renderables :
            (a # b /\ HasRec(a) /\ HasRec(b))
            => RecOf(a).batchableSprite # RecOf(b).batchableSprite
       /\ \A a, b \in Renderables :
            (a # b /\ HasRec(b) /\ ActsFor(a))
            => /\ gpuText'[b] = gpuText[b]
               /\ recs'[gpuText[b].id] = RecOf(b)
               /\ entries'[RecOf(b).batchableSprite] = EntryOf(b)]_vars

\* C19: validate of a renderable that has no record (its uid was never
\* touched, or its slot is null after a destroy) makes one: a live record
\* with the sentinel key, the empty texture and clear flags, whose batch
\* entry is taken from the pool (or is new when the pool is empty) and is
\* wired to the renderable; it registers one more 'destroyed' listener,
\* returns true and issues no request.
C19_ValidateInitializes ==
    [][\A u \in Renderables :
          (ValidateRenderable(u) /\ ~HasRec(u)) =>
              LET rec == recs'[gpuText'[u].id]
              IN  /\ gpuText'[u].tag = "rec"
                  /\ \A v \in Renderables \ {u} : gpuText'[v] # gpuText'[u]
                  /\ rec.currentKey = Sentinel
                  /\ rec.texture = EMPTY
                  /\ ~rec.textureNeedsUploading
                  /\ ~rec.generatingTexture
                  /\ IF pool # <<>>
                     THEN /\ rec.batchableSprite = pool[Len(pool)]
                          /\ pool' = SubSeq(pool, 1, Len(pool) - 1)
                          /\ Len(entries') = Len(entries)
                     ELSE /\ rec.batchableSprite = Len(entries) + 1
                          /\ pool' = pool
                          /\ Len(entries') = Len(entries) + 1
                  /\ entries'[rec.batchableSprite] = InitEntry(u)
                  /\ listeners' = [listeners EXCEPT ![u] = @ + 1]
                  /\ lastOp'.ret
                  /\ ~lastOp'.fault
                  /\ lastOp'.calls = <<>>
                  /\ requests' = requests
                  /\ refCount' = refCount]_vars

\* C19 witness: validate of u, whose earlier record was destroyed, has just
\* returned true and left a fresh record whose batch entry came back from
\* the pool, with a second listener registered on u and no request for it
C19_Witness ==
    \E u \in Renderables :
        /\ lastOp = Op(u, TRUE, FALSE, <<>>)
        /\ HasRec(u)
        /\ listeners[u] = 2
        /\ RecOf(u).currentKey = Sentinel
        /\ RecOf(u).texture = EMPTY
        /\ EntryOf(u) = InitEntry(u)
        /\ pool = <<>>
        /\ PendingOf(gpuText[u].id) = {}

\* C20: once destroy() has run to its end, a 'destroyed' signal of a
\* renderable the pipe tracked and the completion of a request that was
\* pending at teardown throw nothing, call neither decreaseReferenceCount
\* nor BigPool.return, lower no count and leave the pool as it is.
C20_LateEventsHarmless ==
    [][(/\ pipeDestroyed
        /\ \/ \E u \in Renderables : DestroyedSignal(u)
           \/ \E q \in requests : RequestComplete(q))
       => /\ ~lastOp'.fault
          /\ lastOp'.calls = <<>>
          /\ \A k \in Keys : refCount'[k] >= refCount[k]
          /\ pool' = pool]_vars

====
